---- MODULE Spec2Model ----
(***************************************************************************)
(* Model of classgroup/src/nidkg_dealing.rs: the commitment evaluator      *)
(* pubcoeff_to_pks and the dealing aggregator aggregate_dealings.          *)
(*                                                                         *)
(* The curve group has prime order equal to the scalar field order, so it  *)
(* is modelled as the additive group of integers modulo Q with generator   *)
(* G; scalars are the integers modulo Q.  Rust vectors are sequences: the  *)
(* element at Rust position p is the sequence element p + 1.               *)
(***************************************************************************)
EXTENDS Integers, Sequences, FiniteSets

VARIABLES
    pc,              \* "aggregate" | "evaluate" : the call to make; "done" : it was made
    op,              \* which function this behaviour calls
    dealings,        \* aggregate_dealings: dealings
    node_index,      \* aggregate_dealings: node_index (0-based, usize)
    total_nodes,     \* both functions: total_nodes
    coefficients,    \* pubcoeff_to_pks: public_coefficients.coefficients
    result,          \* outcome of aggregate_dealings
    pks_result       \* outcome of pubcoeff_to_pks

vars == <<pc, op, dealings, node_index, total_nodes, coefficients, result, pks_result>>

----------------------------------------------------------------------------
(* Bounds of the model *)

\* order of the scalar field and of the curve group (scaled down)
Q == 5
\* longest list of dealings
MaxDealings == 2
\* largest threshold (number of coefficients of a commitment)
MaxT == 3
\* largest total_nodes
MaxNodes == 3
\* number of distinct dealer polynomials per threshold
MaxSeed == 2

----------------------------------------------------------------------------
(* Field and group operations used by the code *)

Scalars == 0 .. (Q - 1)

\* scalar_bls12381::field_mul: product reduced modulo the field order
field_mul(a, b) == (a * b) % Q

\* scalar_bls12381::field_add_assign: the new value of a after a += b mod order
field_add_assign(a, b) == (a + b) % Q

\* ECP addition in the group of order Q
ecp_add(P, R) == (P + R) % Q

\* ECP scalar multiplication e * P
ecp_mul(e, P) == (e * P) % Q

\* the point at infinity
ECP_INF == 0

\* ECP::muln(n, X, e): the sum of e[k] * X[k] over the first n entries
RECURSIVE muln(_, _, _)
muln(n, X, e) ==
    IF n = 0 THEN ECP_INF
    ELSE ecp_add(muln(n - 1, X, e), ecp_mul(e[n], X[n]))

----------------------------------------------------------------------------
(* Outcomes.  A call returns Ok(..) or Err(..), or does not return: it     *)
(* panics, or it aborts when an allocation cannot be satisfied.            *)

PksOutcome(status, pks) == [status |-> status, pks |-> pks]

AggOutcome(status, sk, gpk, pks, commitment) ==
    [status |-> status, secret_key_share |-> sk, group_public_key |-> gpk,
     partial_public_keys |-> pks, combined_commitment |-> commitment]

NoReturn(status) == AggOutcome(status, 0, ECP_INF, <<>>, <<>>)

----------------------------------------------------------------------------
(* pubcoeff_to_pks *)

\* `len - 2` on usize at line 89.  With overflow checks (debug profile) a
\* negative difference panics; without them (release profile) it wraps to
\* 2^64 + len - 2.
usize_sub(a, b, overflow_checks) ==
    IF a >= b THEN [status |-> "Ok", val |-> a - b]
    ELSE IF overflow_checks THEN [status |-> "panic", val |-> 0]
    ELSE [status |-> "wrapped", val |-> 0]

\* the loop of lines 89-91: count pushes of (last power) * i_pow
RECURSIVE i_pows_loop(_, _, _)
i_pows_loop(i_pows, i_pow, count) ==
    IF count = 0 THEN i_pows
    ELSE i_pows_loop(Append(i_pows, field_mul(i_pows[Len(i_pows)], i_pow)),
                     i_pow, count - 1)

\* lines 85-91 with every further power multiplied by i_pows[0] instead of i_pow
i_pows_of_first(i, len, overflow_checks) ==
    LET count == usize_sub(len, 2, overflow_checks)
    IN  IF count.status = "panic" THEN [status |-> "panic", i_pows |-> <<>>]
        ELSE IF count.status = "wrapped" THEN [status |-> "abort", i_pows |-> <<>>]
        ELSE [status |-> "Ok", i_pows |-> i_pows_loop(<<1, i>>, 1, count.val)]

\* lines 85-91: the power sequence of receiver i for a commitment of len
\* coefficients.  A wrapped count asks for about 2^64 pushes of a BIG, more
\* than a Vec can hold: the process aborts before the loop ends.
i_pows_of(i, len, overflow_checks) ==
    LET count == usize_sub(len, 2, overflow_checks)
    IN  IF count.status = "panic" THEN [status |-> "panic", i_pows |-> <<>>]
        ELSE IF count.status = "wrapped" THEN [status |-> "abort", i_pows |-> <<>>]
        ELSE [status |-> "Ok", i_pows |-> i_pows_loop(<<1, i>>, i, count.val)]

\* lines 92-96: the partial public key of receiver i
pki_of(public_coefficients, i_pows) ==
    muln(Len(public_coefficients), public_coefficients, i_pows)

\* lines 82-100
pubcoeff_to_pks(public_coefficients, n, overflow_checks) ==
    LET len == Len(public_coefficients)
        pows(i) == i_pows_of(i, len, overflow_checks)
    IN  IF n = 0 THEN PksOutcome("Ok", <<>>)
        ELSE IF pows(1).status # "Ok" THEN PksOutcome(pows(1).status, <<>>)
        ELSE PksOutcome("Ok",
                [i \in 1 .. n |-> pki_of(public_coefficients, pows(i).i_pows)])

----------------------------------------------------------------------------
(* aggregate_dealings *)

\* PublicCoefficients::from_poly_g(&Polynomial::zero(), g): no coefficients
\* (line 119 tests the accumulator for emptiness to recognise it)
ZeroCommitment == <<>>

\* PublicCoefficients += : pointwise group addition of commitments of equal
\* length; a length mismatch fails
public_coefficients_add(a, b) ==
    IF Len(a) # Len(b) THEN [status |-> "panic", coefficients |-> <<>>]
    ELSE [status |-> "Ok",
          coefficients |-> [k \in 1 .. Len(a) |-> ecp_add(a[k], b[k])]]

\* lines 119-123 with the accumulator overwritten instead of added to
fold_dealing_overwrite(acc, dealing) ==
    IF acc = <<>> THEN [status |-> "Ok", coefficients |-> dealing.public_coefficients]
    ELSE IF Len(acc) # Len(dealing.public_coefficients)
         THEN [status |-> "panic", coefficients |-> <<>>]
         ELSE [status |-> "Ok", coefficients |-> dealing.public_coefficients]

\* lines 119-123: one iteration of the loop over the dealings
fold_dealing(acc, dealing) ==
    IF acc = <<>> THEN [status |-> "Ok", coefficients |-> dealing.public_coefficients]
    ELSE public_coefficients_add(acc, dealing.public_coefficients)

\* lines 118-124: the loop, from the accumulator acc over the dealings ds
RECURSIVE fold_dealings(_, _)
fold_dealings(acc, ds) ==
    IF ds = <<>> THEN [status |-> "Ok", coefficients |-> acc]
    ELSE LET step == fold_dealing(acc, Head(ds))
         IN  IF step.status # "Ok" THEN step
             ELSE fold_dealings(step.coefficients, Tail(ds))

\* cg_encryption::decrypt followed by mpz_to_big: the call site takes a value,
\* never an error.  A ciphertext that does not decrypt yields the scalar m it
\* carries, which is not the dealer's share.
decrypt(ciphertext) == ciphertext.m

\* lines 126-135 reading ciphertexts[0] instead of ciphertexts[node_index]
my_shares_of_first_slot(ds, idx) ==
    IF \E d \in 1 .. Len(ds) : idx >= Len(ds[d].ciphertexts)
    THEN [status |-> "panic", shares |-> <<>>]
    ELSE [status |-> "Ok",
          shares |-> [d \in 1 .. Len(ds) |-> decrypt(ds[d].ciphertexts[1])]]

\* lines 126-135 skipping the dealings that have no ciphertext at node_index
my_shares_of_skipping(ds, idx) ==
    LET present == SelectSeq(ds, LAMBDA d : idx < Len(d.ciphertexts))
    IN  [status |-> "Ok",
         shares |-> [d \in 1 .. Len(present) |-> decrypt(present[d].ciphertexts[idx + 1])]]

\* lines 126-135: Vec indexing panics when node_index is out of range; every
\* element the closure produces is Ok, so the collected Result is Ok
my_shares_of(ds, idx) ==
    IF \E d \in 1 .. Len(ds) : idx >= Len(ds[d].ciphertexts)
    THEN [status |-> "panic", shares |-> <<>>]
    ELSE [status |-> "Ok",
          shares |-> [d \in 1 .. Len(ds) |-> decrypt(ds[d].ciphertexts[idx + 1])]]

\* lines 139-141: accumulated_sk after adding the shares to sk
RECURSIVE accumulate_sk(_, _)
accumulate_sk(sk, shares) ==
    IF shares = <<>> THEN sk
    ELSE accumulate_sk(field_add_assign(sk, Head(shares)), Tail(shares))

\* lines 150-155 returning the last coefficient as group public key
return_tuple_last(accumulated_sk, partial_pks, accumulated_public_polynomial) ==
    IF accumulated_public_polynomial = <<>> THEN NoReturn("panic")
    ELSE AggOutcome("Ok", accumulated_sk,
                    accumulated_public_polynomial[Len(accumulated_public_polynomial)],
                    partial_pks, accumulated_public_polynomial)

\* lines 150-155: the returned tuple; coefficients[0] panics on an empty Vec
return_tuple(accumulated_sk, partial_pks, accumulated_public_polynomial) ==
    IF accumulated_public_polynomial = <<>> THEN NoReturn("panic")
    ELSE AggOutcome("Ok", accumulated_sk, accumulated_public_polynomial[1],
                    partial_pks, accumulated_public_polynomial)

\* lines 104-156
aggregate_dealings(ds, idx, n, overflow_checks) ==
    LET folded == fold_dealings(ZeroCommitment, ds)
        my_shares == my_shares_of(ds, idx)
    IN  IF folded.status # "Ok" THEN NoReturn(folded.status)
        ELSE IF my_shares.status = "panic" THEN NoReturn("panic")
        ELSE IF my_shares.status # "Ok" THEN NoReturn("Err")
        ELSE LET accumulated_sk == accumulate_sk(0, my_shares.shares)
                 partial_pks == pubcoeff_to_pks(folded.coefficients, n, overflow_checks)
             IN  IF partial_pks.status # "Ok" THEN NoReturn(partial_pks.status)
                 ELSE return_tuple(accumulated_sk, partial_pks.pks, folded.coefficients)

----------------------------------------------------------------------------
(* Inputs *)

G == 1

RECURSIVE Pow(_, _)
Pow(x, k) == IF k = 0 THEN 1 ELSE x * Pow(x, k - 1)

RECURSIVE SumTo(_, _)
\* f[1] + ... + f[n] over the integers
SumTo(f, n) == IF n = 0 THEN 0 ELSE SumTo(f, n - 1) + f[n]

\* a dealer's secret polynomial with t coefficients
Poly(s, t) == [k \in 1 .. t |-> (s * k) % Q]

Polys == {Poly(s, t) : s \in 1 .. MaxSeed, t \in 0 .. MaxT}

\* f(x) in the scalar field
PolyEval(f, x) == SumTo([k \in 1 .. Len(f) |-> f[k] * Pow(x, k - 1)], Len(f)) % Q

Commit(f) == [k \in 1 .. Len(f) |-> ecp_mul(f[k], G)]

Enc(m) == [valid |-> TRUE, m |-> m]

\* a ciphertext that fails to decrypt to the share m
Corrupted(m) == [valid |-> FALSE, m |-> (m + 1) % Q]

\* the dealing of an honest dealer for n receivers
HonestDealing(f, n) ==
    [public_coefficients |-> Commit(f),
     ciphertexts |-> [i \in 1 .. n |-> Enc(PolyEval(f, i))]]

\* the same with the ciphertext of the last receiver corrupted
CorruptDealing(f, n) ==
    [public_coefficients |-> Commit(f),
     ciphertexts |-> [i \in 1 .. n |->
        IF i = n THEN Corrupted(PolyEval(f, i)) ELSE Enc(PolyEval(f, i))]]

\* the same with the ciphertext of the last receiver missing
ShortDealing(f, n) ==
    [public_coefficients |-> Commit(f),
     ciphertexts |-> [i \in 1 .. (n - 1) |-> Enc(PolyEval(f, i))]]

Dealings(n) ==
    {HonestDealing(f, n) : f \in Polys} \cup {CorruptDealing(f, n) : f \in Polys}
        \cup {ShortDealing(f, n) : f \in Polys}

SeqsUpTo(S, n) == UNION {[1 .. k -> S] : k \in 0 .. n}

NodeIndexes(n) == IF n = 0 THEN {0} ELSE 0 .. (n - 1)

NoAggResult == NoReturn("none")
NoPksResult == PksOutcome("none", <<>>)

InitAggregate ==
    /\ pc = "aggregate"
    /\ op = "aggregate"
    /\ total_nodes \in 0 .. MaxNodes
    /\ node_index \in NodeIndexes(total_nodes)
    /\ dealings \in SeqsUpTo(Dealings(total_nodes), MaxDealings)
    /\ coefficients = <<>>
    /\ result = NoAggResult
    /\ pks_result = NoPksResult

InitEvaluate ==
    /\ pc = "evaluate"
    /\ op = "evaluate"
    /\ total_nodes \in 0 .. MaxNodes
    /\ node_index = 0
    /\ dealings = <<>>
    /\ coefficients \in SeqsUpTo(Scalars, MaxT)
    /\ result = NoAggResult
    /\ pks_result = NoPksResult

Init == InitAggregate \/ InitEvaluate

----------------------------------------------------------------------------
(* Actions *)

\* a call of aggregate_dealings, in a build with or without overflow checks
AggregateDealings ==
    /\ pc = "aggregate"
    /\ \E overflow_checks \in BOOLEAN :
          result' = aggregate_dealings(dealings, node_index, total_nodes, overflow_checks)
    /\ pc' = "done"
    /\ UNCHANGED <<op, dealings, node_index, total_nodes, coefficients, pks_result>>

\* a call of pubcoeff_to_pks, in a build with or without overflow checks
PubcoeffToPks ==
    /\ pc = "evaluate"
    /\ \E overflow_checks \in BOOLEAN :
          pks_result' = pubcoeff_to_pks(coefficients, total_nodes, overflow_checks)
    /\ pc' = "done"
    /\ UNCHANGED <<op, dealings, node_index, total_nodes, coefficients, result>>

Next == AggregateDealings \/ PubcoeffToPks

Spec == Init /\ [][Next]_vars

----------------------------------------------------------------------------
(* Properties *)

Aggregated == pc = "done" /\ op = "aggregate"

Evaluated == pc = "done" /\ op = "evaluate"

\* the commitment c evaluated at x: the sum over k of (x^k mod Q) * c[k+1]
Eval(c, x) == SumTo([k \in 1 .. Len(c) |-> (Pow(x, k - 1) % Q) * c[k]], Len(c)) % Q

\* the ciphertext of dealing d addressed to this node exists
InRange(d) == node_index < Len(dealings[d].ciphertexts)

\* the ciphertext of dealing d addressed to this node
MyCiphertext(d) == dealings[d].ciphertexts[node_index + 1]

\* the dealer polynomial a dealing commits to
DealerPoly(dealing) == CHOOSE f \in Polys : Commit(f) = dealing.public_coefficients

Perms(n) == {p \in [1 .. n -> 1 .. n] : \A i, j \in 1 .. n : p[i] = p[j] => i = j}

Permuted(ds, p) == [i \in 1 .. Len(ds) |-> ds[p[i]]]

SameOutcome(a, b) ==
    \/ a.status = "Ok" /\ b.status = "Ok" /\ a = b
    \/ a.status # "Ok" /\ b.status # "Ok"

\* C1: when the ciphertext addressed to this node fails to decrypt for at
\* least one dealing of a non-empty list, aggregate_dealings returns an error
\* and no result tuple.
C1_FailFast ==
    (Aggregated /\ \E d \in 1 .. Len(dealings) : InRange(d) /\ ~MyCiphertext(d).valid)
        => result.status = "Err"

\* C2: aggregate_dealings of an empty list returns successfully with the zero
\* commitment, a zero secret share and the identity as group public key.
C2_EmptyInput ==
    (Aggregated /\ dealings = <<>>)
        => /\ result.status = "Ok"
           /\ result.combined_commitment = ZeroCommitment
           /\ result.secret_key_share = 0
           /\ result.group_public_key = ECP_INF

\* C3: for a commitment of one element and total_nodes >= 1, pubcoeff_to_pks
\* returns total_nodes keys, each equal to that element.
C3_DegenerateThreshold ==
    (Evaluated /\ Len(coefficients) = 1 /\ total_nodes >= 1)
        => /\ pks_result.status = "Ok"
           /\ Len(pks_result.pks) = total_nodes
           /\ \A i \in 1 .. total_nodes : pks_result.pks[i] = coefficients[1]

\* C4: when every decryption succeeds, the returned secret_key_share is the
\* sum modulo the field order of the scalars decrypted from
\* ciphertexts[node_index] of every dealing, which for honest dealers is the
\* sum of f_d(node_index + 1).
C4_SecretShareSum ==
    (Aggregated /\ result.status = "Ok"
        /\ \A d \in 1 .. Len(dealings) : MyCiphertext(d).valid)
        => /\ result.secret_key_share =
                SumTo([d \in 1 .. Len(dealings) |-> MyCiphertext(d).m], Len(dealings)) % Q
           /\ result.secret_key_share =
                SumTo([d \in 1 .. Len(dealings) |->
                          PolyEval(DealerPoly(dealings[d]), node_index + 1)],
                      Len(dealings)) % Q

C4_Witness ==
    /\ Aggregated /\ result.status = "Ok"
    /\ Len(dealings) >= 2
    /\ node_index >= 1
    /\ \A d \in 1 .. Len(dealings) : MyCiphertext(d).valid
    /\ SumTo([d \in 1 .. Len(dealings) |-> MyCiphertext(d).m], Len(dealings)) >= Q
    /\ result.secret_key_share # 0

\* C5: for dealings whose commitments all have length t, the returned
\* combined commitment has length t and its k-th element is the group sum of
\* the k-th elements of all the dealings' commitments.
C5_CombinedCommitment ==
    (Aggregated /\ result.status = "Ok"
        /\ \A d, e \in 1 .. Len(dealings) :
              Len(dealings[d].public_coefficients) = Len(dealings[e].public_coefficients))
        => \A d \in 1 .. Len(dealings) :
              /\ Len(result.combined_commitment) = Len(dealings[d].public_coefficients)
              /\ \A k \in 1 .. Len(result.combined_commitment) :
                    result.combined_commitment[k] =
                        SumTo([e \in 1 .. Len(dealings) |-> dealings[e].public_coefficients[k]],
                              Len(dealings)) % Q

C5_Witness ==
    /\ Aggregated /\ result.status = "Ok"
    /\ Len(dealings) >= 2
    /\ Len(dealings[1].public_coefficients) = Len(dealings[2].public_coefficients)
    /\ dealings[1].public_coefficients # dealings[2].public_coefficients
    /\ \E k \in 1 .. Len(result.combined_commitment) :
          /\ dealings[1].public_coefficients[k] # ECP_INF
          /\ dealings[1].public_coefficients[k] + dealings[2].public_coefficients[k] >= Q

\* C6: for a commitment of t >= 2 elements, pubcoeff_to_pks returns
\* total_nodes elements, element i-1 being the commitment evaluated at i, and
\* the power sequence of every receiver has t entries i^0 .. i^(t-1).
C6_EvaluationCorrect ==
    (Evaluated /\ Len(coefficients) >= 2)
        => /\ pks_result.status = "Ok"
           /\ Len(pks_result.pks) = total_nodes
           /\ \A i \in 1 .. total_nodes :
                 /\ pks_result.pks[i] = Eval(coefficients, i)
                 /\ \A overflow_checks \in BOOLEAN :
                       LET p == i_pows_of(i, Len(coefficients), overflow_checks).i_pows
                       IN  /\ Len(p) = Len(coefficients)
                           /\ \A k \in 1 .. Len(p) : p[k] % Q = Pow(i, k - 1) % Q

C6_Witness ==
    /\ Evaluated /\ pks_result.status = "Ok"
    /\ Len(coefficients) >= 3
    /\ total_nodes >= 2
    /\ coefficients[Len(coefficients)] # ECP_INF
    /\ \E i, j \in 1 .. total_nodes : pks_result.pks[i] # pks_result.pks[j]

\* C7: aggregate_dealings returns the same result for every permutation of
\* the dealings, or fails for both orderings.
C7_OrderIndependent ==
    Aggregated
        => \A p \in Perms(Len(dealings)) : \A overflow_checks \in BOOLEAN :
              result = aggregate_dealings(dealings, node_index, total_nodes, overflow_checks)
                  => SameOutcome(result,
                        aggregate_dealings(Permuted(dealings, p), node_index, total_nodes,
                                           overflow_checks))

\* C8: every returned result has group_public_key = combined_commitment[0]
\* and total_nodes partial public keys, the i-th (from 0) being the combined
\* commitment evaluated at i + 1.
C8_ResultInvariant ==
    (Aggregated /\ result.status = "Ok")
        => /\ result.group_public_key = result.combined_commitment[1]
           /\ Len(result.partial_public_keys) = total_nodes
           /\ \A i \in 1 .. total_nodes :
                 result.partial_public_keys[i] = Eval(result.combined_commitment, i)

C8_Witness ==
    /\ Aggregated /\ result.status = "Ok"
    /\ Len(dealings) >= 2
    /\ total_nodes >= 2
    /\ \A d \in 1 .. Len(dealings) : Len(dealings[d].public_coefficients) >= 3
    /\ result.combined_commitment[1] # result.combined_commitment[Len(result.combined_commitment)]
    /\ \E i, j \in 1 .. total_nodes :
          result.partial_public_keys[i] # result.partial_public_keys[j]

\* C9: when two dealings of the list have commitments of different lengths,
\* the combination fails: no combined commitment is returned.
C9_LengthMismatch ==
    (Aggregated
        /\ \E d, e \in 1 .. Len(dealings) :
              Len(dealings[d].public_coefficients) # Len(dealings[e].public_coefficients))
        => result.status # "Ok"

\* C10: a returned result requires node_index < ciphertexts.len() for every
\* dealing; when node_index is out of range for some dealing the call returns
\* neither Ok nor Err.
C10_IndexInRange ==
    Aggregated
        => /\ result.status = "Ok" => \A d \in 1 .. Len(dealings) : InRange(d)
           /\ (\E d \in 1 .. Len(dealings) : ~InRange(d)) => result.status = "panic"

C10_Witness ==
    /\ Aggregated
    /\ result.status = "panic"
    /\ \E d, e \in 1 .. Len(dealings) :
          /\ ~InRange(d) /\ InRange(e)
          /\ Len(dealings[d].public_coefficients) = Len(dealings[e].public_coefficients)
          /\ Len(dealings[d].public_coefficients) >= 2

====
